---- MODULE Spec2Model ----
(***************************************************************************)
(* Astra: motion recording and playback.                                   *)
(*                                                                         *)
(* The repository holds a zustand store (stores/motionStore.ts), the       *)
(* sensor component MotionTracker (two implementations, .tsx and .js), the *)
(* renderer component ThreeDVisualizer, the store-backed screens           *)
(* RecordScreen and VisualizeScreen, and the older App.js controller that  *)
(* keeps its own recording and playback state.  Each part is modelled as   *)
(* a group of variables with one action per handler; a specification per   *)
(* part composes the actions that part can take.                           *)
(*                                                                         *)
(* Samples: the timestamp of a MotionData is Date.now() at capture; no     *)
(* operation of the repository reads it, and it is left out of the sample  *)
(* records.  Axis readings are integers standing for the sensor's floats.  *)
(***************************************************************************)
EXTENDS Integers, Sequences, FiniteSets, TLC

\* Longest log the model records.
MaxLog == 3

\* Number of distinct raw sensor readings the sensor source can deliver.
MaxReading == 2

VARIABLES
    \* ---- stores/motionStore.ts ----
    isRecording,        \* MotionState.isRecording
    recordedData,       \* MotionState.recordedData
    currentDataIndex,   \* MotionState.currentDataIndex
    storage,            \* AsyncStorage item 'motion-store': <<>> or <<snapshot>>
    hydrating,          \* persist's pending rehydration: <<>> or <<item read>>
    \* ---- environment of the sensor components ----
    sensorEnv,          \* "ok", "denied" or "unavailable": what the sensors answer
    trackerImpl,        \* "tsx" or "js": the file '@/components/MotionTracker' resolves to
    subs,               \* every subscription addListener returned, in order
    \* ---- components/MotionTracker (the mounted instance) ----
    trkMounted,         \* a MotionTracker instance is mounted
    trkGen,             \* number of instances mounted so far in this process
    trkPending,         \* permission checks awaited: [gen, isRecording] of their closures
    trkHasPermissions,  \* hasPermissions (MotionTracker.tsx state)
    trkSubscription,    \* accelerometerSubscription / gyroscopeSubscription state
    \* ---- timers and the renderer ----
    build,              \* "App" (App.js) or "Screens" (RecordScreen / VisualizeScreen)
    intervals,          \* the intervals setInterval created and clearInterval has not cleared
    posted,             \* messages the last step posted to the web view, in order
    \* ---- VisualizeScreen (unnamed/part_002) ----
    vsMounted,          \* a VisualizeScreen instance is mounted
    vsIsPlaying,        \* isPlaying (VisualizeScreen state)
    vsInterval,         \* playbackInterval of the playback effect last run
    \* ---- components/ThreeDVisualizer (the mounted instance) ----
    visMounted,         \* a ThreeDVisualizer instance is mounted
    visGen,             \* number of instances mounted so far in this process
    deviceOrientation,  \* deviceOrientation state
    \* ---- App.js ----
    appMounted,         \* App is mounted
    appRecordedData,    \* recordedData (App state)
    appIsRecording,     \* isRecording (App state)
    appIsPlaying,       \* isPlaying (App state)
    currentFrameIndex,  \* currentFrameIndex (App state)
    playbackIntervalRef,\* playbackIntervalRef.current
    appClosures,        \* isRecording values held by the closures of subscribed listeners
    \* ---- history of the calls made (not program state) ----
    lastOp,             \* name of the last operation performed
    pre,                \* store fields as they were before the last operation
    lastReading,        \* the reading delivered by the last sensor event
    inSession,          \* a startRecording has been called and no stop/clear since
    session             \* samples passed to addDataPoint during that interval

storeVars   == <<isRecording, recordedData, currentDataIndex, storage>>
envVars     == <<sensorEnv, trackerImpl, subs>>
trackerVars == <<trkMounted, trkGen, trkPending, trkHasPermissions, trkSubscription>>
timerVars   == <<build, intervals, posted>>
screenVars  == <<vsMounted, vsIsPlaying, vsInterval>>
visVars     == <<visMounted, visGen, deviceOrientation>>
appVars     == <<appMounted, appRecordedData, appIsRecording, appIsPlaying,
                 currentFrameIndex, playbackIntervalRef, appClosures>>
playVars    == <<timerVars, screenVars, visVars, appVars>>
histVars    == <<lastOp, pre, lastReading, inSession, session>>

----------------------------------------------------------------------------
(* Values *)

\* Raw readings {x, y, z} delivered by a sensor; x and y differ so that an
\* axis swap is visible.
\* useState({ x: 0, y: 0, z: 0 }) / useSharedValue(0): the value before any reading.
ZeroReading == [x |-> 0, y |-> 0, z |-> 0]

Readings == { [x |-> n, y |-> n + 10, z |-> n + 20] : n \in 1..MaxReading }

\* MotionTracker.tsx accelerometer listener: the data point it builds.
AccelPoint(data) ==
    [type |-> "accelerometer", x |-> data.x, y |-> data.y, z |-> data.z,
     rotationX |-> data.y, rotationY |-> data.x, rotationZ |-> data.z]

\* MotionTracker.tsx gyroscope listener: the data point it builds.
GyroPoint(data) ==
    [type |-> "gyroscope", x |-> data.x, y |-> data.y, z |-> data.z,
     rotationX |-> data.x, rotationY |-> data.y, rotationZ |-> data.z]

\* The MotionData values handed to the store in the model.
DataPoints == { AccelPoint(d) : d \in Readings } \cup { GyroPoint(d) : d \in Readings }

Min(a, b) == IF a < b THEN a ELSE b
Max(a, b) == IF a > b THEN a ELSE b

----------------------------------------------------------------------------
(* stores/motionStore.ts *)

\* The store's state as one value: the three data fields and the item the
\* persist middleware keeps in AsyncStorage.
Store ==
    [isRecording |-> isRecording, recordedData |-> recordedData,
     currentDataIndex |-> currentDataIndex, storage |-> storage]

\* What the persist middleware writes: the state's data fields (functions are
\* dropped by JSON.stringify).
Snapshot(st) ==
    [isRecording |-> st.isRecording, recordedData |-> st.recordedData,
     currentDataIndex |-> st.currentDataIndex]

\* Faulty variant of Persist: the state is not written through.
Persist_NoWrite(st) == st

\* zustand set(...) under persist: after the partial state is merged, the whole
\* state is written through to storage.
Persist(st) == [st EXCEPT !.storage = <<Snapshot(st)>>]

\* The variables take the values of the store state st.
Commit(st) ==
    /\ isRecording' = st.isRecording
    /\ recordedData' = st.recordedData
    /\ currentDataIndex' = st.currentDataIndex
    /\ storage' = st.storage

StoreInit ==
    /\ isRecording = FALSE
    /\ recordedData = <<>>
    /\ currentDataIndex = 0
    /\ storage = <<>>

\* Faulty variants of startRecording (used to test the claims' formulas).
startRecording_KeepsLog(st) ==
    Persist([st EXCEPT !.isRecording = TRUE, !.currentDataIndex = 0])
startRecording_KeepsIndex(st) ==
    Persist([st EXCEPT !.isRecording = TRUE, !.recordedData = <<>>])

startRecording(st) ==
    Persist([st EXCEPT !.isRecording = TRUE, !.recordedData = <<>>,
                       !.currentDataIndex = 0])

stopRecording(st) == Persist([st EXCEPT !.isRecording = FALSE])

\* Faulty variant of addDataPoint: the isRecording guard is missing.
addDataPoint_NoGuard(st, dataPoint) ==
    Persist([st EXCEPT !.recordedData = Append(st.recordedData, dataPoint),
                       !.currentDataIndex = Len(st.recordedData)])

\* Faulty variant of addDataPoint: the sample is appended, the cursor stays.
addDataPoint_KeepsCursor(st, dataPoint) ==
    IF ~st.isRecording
    THEN st
    ELSE Persist([st EXCEPT !.recordedData = Append(st.recordedData, dataPoint)])

addDataPoint(st, dataPoint) ==
    IF ~st.isRecording
    THEN st
    ELSE Persist([st EXCEPT !.recordedData = Append(st.recordedData, dataPoint),
                            !.currentDataIndex = Len(st.recordedData)])

\* Faulty variant of clearRecordedData: isRecording is left as it was.
clearRecordedData_KeepsRecording(st) ==
    Persist([st EXCEPT !.recordedData = <<>>, !.currentDataIndex = 0])

clearRecordedData(st) ==
    Persist([st EXCEPT !.recordedData = <<>>, !.currentDataIndex = 0,
                       !.isRecording = FALSE])

\* Faulty variant of nextDataPoint: the index is not clamped.
nextDataPoint_NoClamp(st) ==
    Persist([st EXCEPT !.currentDataIndex = st.currentDataIndex + 1])

nextDataPoint(st) ==
    LET newIndex == Min(st.currentDataIndex + 1, Max(0, Len(st.recordedData) - 1))
    IN  Persist([st EXCEPT !.currentDataIndex = newIndex])

\* Faulty variant of previousDataPoint: the index is not clamped at 0.
previousDataPoint_NoClamp(st) ==
    Persist([st EXCEPT !.currentDataIndex = st.currentDataIndex - 1])

previousDataPoint(st) ==
    LET newIndex == Max(0, st.currentDataIndex - 1)
    IN  Persist([st EXCEPT !.currentDataIndex = newIndex])

----------------------------------------------------------------------------
(* The persist middleware's rehydration (zustand/middleware persist, driven by *)
(* the options at motionStore.ts:95-98).                                      *)

\* The item read from storage is merged over the state, and the merged state is
\* written back.  item is <<>> (no item) or <<snapshot>>.
rehydrate(st, item) ==
    IF item = <<>>
    THEN Persist(st)
    ELSE Persist([st EXCEPT !.isRecording = item[1].isRecording,
                            !.recordedData = item[1].recordedData,
                            !.currentDataIndex = item[1].currentDataIndex])

----------------------------------------------------------------------------
(* The sensor source (expo-sensors) and components/MotionTracker *)

\* Mount instances of a sensor component per process in the model.
MaxMounts == 2

\* Longest log recorded through the sensor components in the model.
MaxSensorLog == 2

\* useState(null): the subscription state before setAccelerometerSubscription.
NoSubscription == 0

EnvInit ==
    /\ sensorEnv \in {"ok", "denied", "unavailable"}
    /\ trackerImpl \in {"tsx", "js"}
    /\ subs = <<>>

TrackerInit ==
    /\ trkMounted = FALSE
    /\ trkGen = 0
    /\ trkPending = {}
    /\ trkHasPermissions = FALSE
    /\ trkSubscription = [accel |-> NoSubscription, gyro |-> NoSubscription]

\* MotionTracker.js accelerometer listener: the data point it builds.  The
\* rotation fields read the shared values motionX/Y/Z right after they were
\* assigned withSpring(...); m is what those reads return (the value before
\* any reading or this reading's, the two ends of the spring's movement).
JsAccelPoint(data, m) ==
    [type |-> "accelerometer", x |-> data.x, y |-> data.y, z |-> data.z,
     rotationX |-> m.y, rotationY |-> m.x, rotationZ |-> m.z]

\* Accelerometer.addListener / Gyroscope.addListener for one startSensors call:
\* the two subscriptions, whose listeners close over the isRecording prop of the
\* render that defined startSensors, registered by instance gen.
addListeners(ss, rec, gen) ==
    ss \o << [owner |-> "MotionTracker", sensor |-> "accelerometer", isRecording |-> rec,
               gen |-> gen, removed |-> FALSE],
             [owner |-> "MotionTracker", sensor |-> "gyroscope", isRecording |-> rec,
               gen |-> gen, removed |-> FALSE] >>

\* subscription.remove() on the subscriptions held in the given state values;
\* a null value is skipped.
stopSensors(ss, accSub, gyroSub) ==
    [i \in DOMAIN ss |->
        IF (accSub # NoSubscription /\ i = accSub) \/ (gyroSub # NoSubscription /\ i = gyroSub)
        THEN [ss[i] EXCEPT !.removed = TRUE]
        ELSE ss[i]]

\* checkPermissions (tsx) / checkAndRequestSensorPermissions + isAvailableAsync (js).
checkPermissions == sensorEnv = "ok"

\* MotionTracker's listeners of one sensor still subscribed, in registration order.
RECURSIVE Listening(_, _)
Listening(ss, sensor) ==
    IF ss = <<>> THEN <<>>
    ELSE (IF /\ Head(ss).owner = "MotionTracker"
             /\ Head(ss).sensor = sensor
             /\ ~Head(ss).removed
          THEN <<Head(ss)>> ELSE <<>>)
         \o Listening(Tail(ss), sensor)

\* One sensor event: every listener in ls runs; a listener whose closure holds
\* isRecording = true calls onDataPoint (the store's addDataPoint) with point.
RECURSIVE Dispatch(_, _, _)
Dispatch(st, ls, point) ==
    IF ls = <<>> THEN st
    ELSE Dispatch(IF Head(ls).isRecording THEN addDataPoint(st, point) ELSE st,
                  Tail(ls), point)

----------------------------------------------------------------------------
(* Timers, VisualizeScreen (unnamed/part_002), ThreeDVisualizer and App.js *)

\* useRef(null) / let playbackInterval = null: no interval held.
NoInterval == 0

\* getCurrentMotionData's null and the value of an out-of-range array read.
Null == [type |-> "null"]
Undefined == [type |-> "undefined"]

\* The handle setInterval returns: one no interval still scheduled has.
NewInterval(ints) ==
    CHOOSE n \in 1..(Cardinality(ints) + 1) : \A t \in ints : t.id # n

\* setInterval(callback, 100) by owner; length is recordedData.length as the
\* callback's closure holds it (App.js:70).
setInterval(ints, owner, length) ==
    ints \cup {[id |-> NewInterval(ints), owner |-> owner, length |-> length]}

\* Faulty variant of clearInterval: the interval stays scheduled.
clearInterval_Keeps(ints, handle) == ints

\* clearInterval(handle).
clearInterval(ints, handle) == {t \in ints : t.id # handle}

PlaybackInit ==
    /\ intervals = {}
    /\ posted = <<>>
    /\ vsMounted = FALSE
    /\ vsIsPlaying = FALSE
    /\ vsInterval = NoInterval
    /\ visMounted = FALSE
    /\ visGen = 0
    /\ deviceOrientation = ZeroReading
    /\ appMounted = (build = "App")
    /\ appRecordedData = <<>>
    /\ appIsRecording = FALSE
    /\ appIsPlaying = FALSE
    /\ currentFrameIndex = 0
    /\ playbackIntervalRef = NoInterval
    /\ appClosures = {FALSE}

\* ---- VisualizeScreen ----

\* recordedData[i] as JavaScript reads it (0-based; undefined out of range).
At(log, i) == IF i >= 0 /\ i < Len(log) THEN log[i + 1] ELSE Undefined

\* VisualizeScreen's currentMotionData (part_002:29-30).
currentMotionData(log, idx) ==
    IF Len(log) > 0 THEN At(log, idx % Len(log)) ELSE Null

\* The playback effect of VisualizeScreen (part_002:13-27) across one render:
\* was and now are [mounted, isPlaying, length]; the result is the intervals
\* scheduled and the handle the effect holds afterwards.
playbackEffect(ints, handle, was, now) ==
    LET rerun   == now.mounted /\ (~was.mounted \/ was.isPlaying # now.isPlaying
                                                \/ was.length # now.length)
        cleanup == was.mounted /\ (~now.mounted \/ rerun)
        cleared == IF cleanup /\ handle # NoInterval THEN clearInterval(ints, handle) ELSE ints
    IN  IF rerun /\ now.isPlaying /\ now.length > 0
        THEN [intervals |-> setInterval(cleared, "VisualizeScreen", 0),
              interval |-> NewInterval(cleared)]
        ELSE IF cleanup \/ rerun
        THEN [intervals |-> cleared, interval |-> NoInterval]
        ELSE [intervals |-> ints, interval |-> handle]

\* ---- ThreeDVisualizer ----

\* x || 0 on an optional rotation field.
OrZero(sample, field) == IF field \in DOMAIN sample THEN sample[field] ELSE 0

\* The message of the deviceOrientation effect (part_001:129-137).  Message
\* values are in tenths: the listener scales a reading by 0.3.
OrientationMessage(o) == [type |-> "orientation", x |-> o.x, y |-> o.y, z |-> o.z]

\* The deviceOrientation the listener sets from a reading (part_001:103-111).
ScaledOrientation(data) == [x |-> 3 * data.y, y |-> 3 * data.x, z |-> 3 * data.z]

\* The message of the motionData effect (part_001:139-149), in tenths.
MotionDataMessage(sample) ==
    [type |-> "orientation", x |-> 10 * OrZero(sample, "rotationX"),
     y |-> 10 * OrZero(sample, "rotationY"), z |-> 10 * OrZero(sample, "rotationZ")]

\* What the motionData effect posts for the prop value frame.
PostMotionData(frame) ==
    IF frame = Null THEN <<>> ELSE <<[msg |-> MotionDataMessage(frame), source |-> "motionData"]>>

\* startTracking: Accelerometer.addListener by ThreeDVisualizer instance gen.
startTracking(ss, gen) ==
    Append(ss, [owner |-> "ThreeDVisualizer", sensor |-> "accelerometer",
                isRecording |-> FALSE, gen |-> gen, removed |-> FALSE])

\* stopTracking: subscription?.remove() on the subscription state value given.
stopTracking(ss, subscription) ==
    [i \in DOMAIN ss |->
        IF subscription # NoSubscription /\ i = subscription
        THEN [ss[i] EXCEPT !.removed = TRUE]
        ELSE ss[i]]

\* ---- App.js ----

\* Faulty variant of clearPlaybackInterval: the ref is reset, the interval is
\* not cleared.
clearPlaybackInterval_OnlyRef(ints, ref) ==
    [intervals |-> ints, ref |-> NoInterval]

\* clearPlaybackInterval (App.js:33-38): the intervals scheduled and the ref
\* afterwards.
clearPlaybackInterval(ints, ref) ==
    IF ref # NoInterval
    THEN [intervals |-> clearInterval(ints, ref), ref |-> NoInterval]
    ELSE [intervals |-> ints, ref |-> ref]

\* Faulty variant of getCurrentMotionData: the frame at the cursor is returned
\* whether or not playback is active.
getCurrentMotionData_WhenPaused(log, playing, idx) ==
    IF Len(log) = 0 THEN Null ELSE At(log, idx)

\* getCurrentMotionData (App.js:87-90).
getCurrentMotionData(log, playing, idx) ==
    IF Len(log) = 0 \/ ~playing THEN Null ELSE At(log, idx)

----------------------------------------------------------------------------
(* History of the calls, kept beside the program state to state the claims. *)

StoreFields ==
    [isRecording |-> isRecording, recordedData |-> recordedData,
     currentDataIndex |-> currentDataIndex]

HistInit ==
    /\ lastOp = "init"
    /\ lastReading = ZeroReading
    /\ pre = [isRecording |-> FALSE, recordedData |-> <<>>, currentDataIndex |-> 0]
    /\ inSession = FALSE
    /\ session = <<>>

Did(op) == lastOp' = op /\ pre' = StoreFields

vars == <<storeVars, hydrating, envVars, trackerVars, playVars, histVars>>

----------------------------------------------------------------------------
(* StoreSpec: the store driven directly through its six operations. *)

\* The parts of the program StoreSpec leaves out.
StoreSpecRest == <<hydrating, envVars, trackerVars, playVars, lastReading>>

StartRecording ==
    /\ Commit(startRecording(Store))
    /\ Did("startRecording")
    /\ inSession' = TRUE
    /\ session' = <<>>
    /\ UNCHANGED StoreSpecRest

StopRecording ==
    /\ Commit(stopRecording(Store))
    /\ Did("stopRecording")
    /\ inSession' = FALSE
    /\ UNCHANGED session
    /\ UNCHANGED StoreSpecRest

AddDataPoint ==
    \E dataPoint \in DataPoints :
        /\ isRecording => Len(recordedData) < MaxLog
        /\ Commit(addDataPoint(Store, dataPoint))
        /\ Did("addDataPoint")
        /\ session' = IF inSession THEN Append(session, dataPoint) ELSE session
        /\ UNCHANGED inSession
        /\ UNCHANGED StoreSpecRest

ClearRecordedData ==
    /\ Commit(clearRecordedData(Store))
    /\ Did("clearRecordedData")
    /\ inSession' = FALSE
    /\ session' = <<>>
    /\ UNCHANGED StoreSpecRest

NextDataPoint ==
    /\ Commit(nextDataPoint(Store))
    /\ Did("nextDataPoint")
    /\ UNCHANGED <<inSession, session>>
    /\ UNCHANGED StoreSpecRest

PreviousDataPoint ==
    /\ Commit(previousDataPoint(Store))
    /\ Did("previousDataPoint")
    /\ UNCHANGED <<inSession, session>>
    /\ UNCHANGED StoreSpecRest

StoreSpecInit ==
    /\ StoreInit
    /\ hydrating = <<>>
    /\ sensorEnv = "ok" /\ trackerImpl = "tsx" /\ subs = <<>>
    /\ TrackerInit
    /\ build = "Screens"
    /\ PlaybackInit
    /\ HistInit

StoreSpecNext ==
    \/ StartRecording
    \/ StopRecording
    \/ AddDataPoint
    \/ ClearRecordedData
    \/ NextDataPoint
    \/ PreviousDataPoint

StoreSpec == StoreSpecInit /\ [][StoreSpecNext]_vars

----------------------------------------------------------------------------
(* TrackerSpec: RecordScreen with MotionTracker over the store, the sensor *)
(* source delivering readings, and process restarts.                       *)

\* The parts of the history TrackerSpec does not use.
TrackerSpecRest == <<session>>

\* Every action of TrackerSpec names itself; the store's fields before the call
\* are not recorded there, and the playback parts take no step.
DidT(op) == lastOp' = op /\ UNCHANGED <<pre, playVars>>

\* MotionTracker mounts: its mount effect calls startSensors (tsx) or
\* setupSensors (js), which first awaits the permission check.
TrkMount ==
    /\ ~trkMounted
    /\ trkGen < MaxMounts
    /\ trkMounted' = TRUE
    /\ trkGen' = trkGen + 1
    /\ trkHasPermissions' = FALSE
    /\ trkSubscription' = [accel |-> NoSubscription, gyro |-> NoSubscription]
    /\ trkPending' = trkPending \cup {[gen |-> trkGen + 1, isRecording |-> isRecording]}
    /\ DidT("mount")
    /\ UNCHANGED <<storeVars, hydrating, envVars, lastReading, inSession, session>>

\* The awaited permission check of one startSensors call resolves and the call
\* runs to its end; state setters of an instance no longer mounted are dropped.
TrkPermissionResolved ==
    \E p \in trkPending :
        /\ trkPending' = trkPending \ {p}
        /\ IF checkPermissions
           THEN /\ subs' = addListeners(subs, p.isRecording, p.gen)
                /\ IF trkMounted /\ p.gen = trkGen
                   THEN /\ trkHasPermissions' = (trackerImpl = "tsx")
                        /\ trkSubscription' = [accel |-> Len(subs) + 1, gyro |-> Len(subs) + 2]
                   ELSE UNCHANGED <<trkHasPermissions, trkSubscription>>
           ELSE UNCHANGED <<subs, trkHasPermissions, trkSubscription>>
        /\ DidT("permissionResolved")
        /\ UNCHANGED <<storeVars, hydrating, sensorEnv, trackerImpl, trkMounted, trkGen,
                       lastReading, inSession, session>>

\* MotionTracker unmounts: the mount effect's cleanup calls the stopSensors of
\* the first render, whose closure holds the subscription state of that render.
TrkUnmount ==
    /\ trkMounted
    /\ subs' = stopSensors(subs, NoSubscription, NoSubscription)
    /\ trkMounted' = FALSE
    /\ trkHasPermissions' = FALSE
    /\ trkSubscription' = [accel |-> NoSubscription, gyro |-> NoSubscription]
    /\ DidT("unmount")
    /\ UNCHANGED <<storeVars, hydrating, sensorEnv, trackerImpl, trkGen, trkPending,
                   lastReading, inSession, session>>

\* MotionTracker.tsx: the record button, disabled unless hasPermissions; it
\* calls onStopRecording when isRecording and onStartRecording otherwise.
TrkPressRecordButton ==
    /\ trackerImpl = "tsx"
    /\ trkMounted
    /\ trkHasPermissions
    /\ IF isRecording
       THEN Commit(stopRecording(Store)) /\ DidT("stopRecording")
       ELSE Commit(startRecording(Store)) /\ DidT("startRecording")
    /\ inSession' = ~isRecording
    /\ UNCHANGED <<hydrating, envVars, trackerVars, lastReading, session>>

\* MotionTracker.js startRecording: the Start Recording button.
TrkPressStartRecording ==
    /\ trackerImpl = "js"
    /\ trkMounted
    /\ ~isRecording
    /\ IF trkSubscription.accel = NoSubscription \/ trkSubscription.gyro = NoSubscription
       THEN /\ subs' = addListeners(subs, isRecording, trkGen)
            /\ trkSubscription' = [accel |-> Len(subs) + 1, gyro |-> Len(subs) + 2]
       ELSE UNCHANGED <<subs, trkSubscription>>
    /\ Commit(startRecording(Store))
    /\ DidT("startRecording")
    /\ inSession' = TRUE
    /\ UNCHANGED <<hydrating, sensorEnv, trackerImpl, trkMounted, trkGen, trkPending,
                   trkHasPermissions, lastReading, session>>

\* MotionTracker.js stopRecording: the Stop Recording button.
TrkPressStopRecording ==
    /\ trackerImpl = "js"
    /\ trkMounted
    /\ isRecording
    /\ Commit(stopRecording(Store))
    /\ DidT("stopRecording")
    /\ inSession' = FALSE
    /\ UNCHANGED <<hydrating, envVars, trackerVars, lastReading, session>>

\* The accelerometer delivers a reading to every subscribed listener.
AccelerometerReading ==
    \E data \in Readings :
        LET ls == Listening(subs, "accelerometer") IN
        /\ ls # <<>>
        /\ \E m \in {ZeroReading, data} :
            LET point == IF trackerImpl = "tsx" THEN AccelPoint(data) ELSE JsAccelPoint(data, m)
                st == Dispatch(Store, ls, point)
            IN  /\ trackerImpl = "tsx" => m = ZeroReading
                /\ Len(st.recordedData) <= MaxSensorLog
                /\ Commit(st)
        /\ DidT("accelerometerReading")
        /\ lastReading' = data
        /\ UNCHANGED <<hydrating, envVars, trackerVars, inSession, session>>

\* The gyroscope delivers a reading to every subscribed listener.  The .js
\* listener builds a data point and does not send it.
GyroscopeReading ==
    \E data \in Readings :
        LET ls == Listening(subs, "gyroscope")
            st == IF trackerImpl = "tsx" THEN Dispatch(Store, ls, GyroPoint(data)) ELSE Store
        IN  /\ ls # <<>>
            /\ Len(st.recordedData) <= MaxSensorLog
            /\ Commit(st)
            /\ DidT("gyroscopeReading")
            /\ lastReading' = data
            /\ UNCHANGED <<hydrating, envVars, trackerVars, inSession, session>>

\* The process is killed and launched again: every component and subscription
\* is gone, the store is created with its initial state and starts to
\* rehydrate from the item in storage.
Restart ==
    /\ isRecording' = FALSE
    /\ recordedData' = <<>>
    /\ currentDataIndex' = 0
    /\ UNCHANGED storage
    /\ hydrating' = <<storage>>
    /\ subs' = <<>>
    /\ trkMounted' = FALSE
    /\ trkGen' = 0
    /\ trkPending' = {}
    /\ trkHasPermissions' = FALSE
    /\ trkSubscription' = [accel |-> NoSubscription, gyro |-> NoSubscription]
    /\ DidT("restart")
    /\ inSession' = FALSE
    /\ UNCHANGED <<sensorEnv, trackerImpl, lastReading, session>>

\* The storage read started at creation completes: persist merges the item.
Hydrate ==
    /\ hydrating # <<>>
    /\ Commit(rehydrate(Store, hydrating[1]))
    /\ hydrating' = <<>>
    /\ DidT("hydrate")
    /\ UNCHANGED <<envVars, trackerVars, lastReading, inSession, session>>

TrackerSpecInit ==
    /\ StoreInit
    /\ hydrating = <<storage>>
    /\ EnvInit
    /\ TrackerInit
    /\ build = "Screens"
    /\ PlaybackInit
    /\ HistInit

TrackerSpecNext ==
    \/ TrkMount
    \/ TrkPermissionResolved
    \/ TrkUnmount
    \/ TrkPressRecordButton
    \/ TrkPressStartRecording
    \/ TrkPressStopRecording
    \/ AccelerometerReading
    \/ GyroscopeReading
    \/ Restart
    \/ Hydrate

TrackerSpec == TrackerSpecInit /\ [][TrackerSpecNext]_vars

----------------------------------------------------------------------------
(* PlaybackSpec: recording and playback in either build.  In the Screens     *)
(* build VisualizeScreen plays the store's log and shows ThreeDVisualizer    *)
(* while the log is non-empty; in the App build App.js keeps its own log,    *)
(* cursor and interval.                                                      *)

\* Longest log recorded in PlaybackSpec.
MaxPlayLog == 3

\* Every action of PlaybackSpec names itself; the other history is not kept there.
DidP(op) == lastOp' = op /\ UNCHANGED <<pre, lastReading, inSession, session>>

\* The parts of the program the Screens build's steps leave alone.
ScreensRest == <<hydrating, sensorEnv, trackerImpl, trackerVars, build, appVars>>

\* The parts of the program the App build's steps leave alone.
AppRest == <<storeVars, hydrating, envVars, trackerVars, build, posted, screenVars, visVars>>

\* The position in the log of the sample VisualizeScreen hands to the renderer
\* (-1: none).  The log only grows by appending or is emptied, so the object at
\* a position stays the same object while it exists.
FramePosition(log, idx) == IF Len(log) > 0 THEN idx % Len(log) ELSE -1

\* One step of the Screens build: the store takes the state st and
\* VisualizeScreen is mounted and playing as given; then the render and its
\* effects run: the playback effect, and ThreeDVisualizer is mounted, kept or
\* unmounted with its own effects.
ScreensStep(st, mounted, playing) ==
    LET was   == [mounted |-> vsMounted, isPlaying |-> vsIsPlaying, length |-> Len(recordedData)]
        now   == [mounted |-> mounted, isPlaying |-> playing, length |-> Len(st.recordedData)]
        eff   == playbackEffect(intervals, vsInterval, was, now)
        shown == mounted /\ Len(st.recordedData) > 0
        frame == currentMotionData(st.recordedData, st.currentDataIndex)
    IN  /\ Commit(st)
        /\ vsMounted' = mounted
        /\ vsIsPlaying' = playing
        /\ intervals' = eff.intervals
        /\ vsInterval' = eff.interval
        /\ visMounted' = shown
        /\ IF shown /\ ~visMounted
           THEN \* ThreeDVisualizer mounts: startTracking, then both post effects run
                /\ visGen < MaxMounts
                /\ visGen' = visGen + 1
                /\ subs' = startTracking(subs, visGen + 1)
                /\ deviceOrientation' = ZeroReading
                /\ posted' = <<[msg |-> OrientationMessage(ZeroReading), source |-> "deviceOrientation"]>>
                             \o PostMotionData(frame)
           ELSE IF ~shown /\ visMounted
           THEN \* ThreeDVisualizer unmounts: the cleanup calls the stopTracking of
                \* the first render, whose closure holds subscription = null
                /\ subs' = stopTracking(subs, NoSubscription)
                /\ deviceOrientation' = ZeroReading
                /\ posted' = <<>>
                /\ UNCHANGED visGen
           ELSE \* kept (or absent): the motionData effect runs when the prop changed
                /\ posted' = IF shown /\ FramePosition(st.recordedData, st.currentDataIndex)
                                         # FramePosition(recordedData, currentDataIndex)
                             THEN PostMotionData(frame) ELSE <<>>
                /\ UNCHANGED <<subs, visGen, deviceOrientation>>
        /\ UNCHANGED ScreensRest

\* ---- the Screens build ----

ScrStartRecording ==
    /\ build = "Screens"
    /\ ScreensStep(startRecording(Store), vsMounted, vsIsPlaying)
    /\ DidP("startRecording")

ScrStopRecording ==
    /\ build = "Screens"
    /\ ScreensStep(stopRecording(Store), vsMounted, vsIsPlaying)
    /\ DidP("stopRecording")

ScrAddDataPoint ==
    \E dataPoint \in DataPoints :
        /\ build = "Screens"
        /\ isRecording
        /\ Len(recordedData) < MaxPlayLog
        /\ ScreensStep(addDataPoint(Store, dataPoint), vsMounted, vsIsPlaying)
        /\ DidP("addDataPoint")

\* The Visualize tab is opened.
VsMount ==
    /\ build = "Screens"
    /\ ~vsMounted
    /\ ScreensStep(Store, TRUE, FALSE)
    /\ DidP("vsMount")

\* VisualizeScreen is torn down.
VsUnmount ==
    /\ build = "Screens"
    /\ vsMounted
    /\ ScreensStep(Store, FALSE, vsIsPlaying)
    /\ DidP("vsUnmount")

\* The Play / Pause button (rendered while the log is non-empty).
VsTogglePlay ==
    /\ build = "Screens"
    /\ vsMounted
    /\ Len(recordedData) > 0
    /\ ScreensStep(Store, vsMounted, ~vsIsPlaying)
    /\ DidP(IF vsIsPlaying THEN "pause" ELSE "play")

\* The Next button, disabled at the final index.
VsPressNext ==
    /\ build = "Screens"
    /\ vsMounted
    /\ Len(recordedData) > 0
    /\ currentDataIndex # Len(recordedData) - 1
    /\ ScreensStep(nextDataPoint(Store), vsMounted, vsIsPlaying)
    /\ DidP("nextDataPoint")

\* The Previous button, disabled at index 0.
VsPressPrevious ==
    /\ build = "Screens"
    /\ vsMounted
    /\ Len(recordedData) > 0
    /\ currentDataIndex # 0
    /\ ScreensStep(previousDataPoint(Store), vsMounted, vsIsPlaying)
    /\ DidP("previousDataPoint")

\* An interval of the playback effect fires: nextDataPoint().
VsTick ==
    \E t \in intervals :
        /\ build = "Screens"
        /\ t.owner = "VisualizeScreen"
        /\ ScreensStep(nextDataPoint(Store), vsMounted, vsIsPlaying)
        /\ DidP("tick")

\* The accelerometer delivers a reading to ThreeDVisualizer's listeners; the
\* mounted instance sets deviceOrientation and its effect posts the message.
\* (The setter of an instance no longer mounted is dropped.)
VisAccelerometerReading ==
    \E data \in Readings :
        /\ build = "Screens"
        /\ visMounted
        /\ \E i \in DOMAIN subs :
              /\ subs[i].owner = "ThreeDVisualizer"
              /\ subs[i].gen = visGen
              /\ ~subs[i].removed
        /\ deviceOrientation' = ScaledOrientation(data)
        /\ posted' = <<[msg |-> OrientationMessage(ScaledOrientation(data)),
                        source |-> "accelerometer"]>>
        /\ lastOp' = "accelerometerReading"
        /\ lastReading' = data
        /\ UNCHANGED <<storeVars, ScreensRest, subs, intervals, screenVars, visMounted, visGen,
                       pre, inSession, session>>

\* ---- the App build ----

AppStartRecording ==
    /\ build = "App"
    /\ appMounted
    /\ appIsRecording' = TRUE
    /\ appRecordedData' = <<>>
    /\ DidP("startRecording")
    /\ UNCHANGED <<AppRest, intervals, appMounted, appIsPlaying, currentFrameIndex,
                   playbackIntervalRef, appClosures>>

AppStopRecording ==
    /\ build = "App"
    /\ appMounted
    /\ appIsRecording' = FALSE
    /\ DidP("stopRecording")
    /\ UNCHANGED <<AppRest, intervals, appMounted, appRecordedData, appIsPlaying,
                   currentFrameIndex, playbackIntervalRef, appClosures>>

\* The MotionTracker that App's render mounted has subscribed its listeners:
\* they hold the handleDataPoint, and the isRecording, of that render.
AppSensorsStarted ==
    /\ build = "App"
    /\ appMounted
    /\ appIsRecording \notin appClosures
    /\ appClosures' = appClosures \cup {appIsRecording}
    /\ DidP("sensorsStarted")
    /\ UNCHANGED <<AppRest, intervals, appMounted, appRecordedData, appIsRecording,
                   appIsPlaying, currentFrameIndex, playbackIntervalRef>>

\* handleDataPoint, called by a subscribed listener with the data point it
\* built; isRecording is the value its closure holds.
AppDataPoint ==
    \E dataPoint \in DataPoints, rec \in appClosures :
        /\ build = "App"
        /\ appMounted
        /\ rec
        /\ Len(appRecordedData) < MaxPlayLog
        /\ appRecordedData' = Append(appRecordedData, dataPoint)
        /\ DidP("addDataPoint")
        /\ UNCHANGED <<AppRest, intervals, appMounted, appIsRecording, appIsPlaying,
                       currentFrameIndex, playbackIntervalRef, appClosures>>

\* Faulty variant of handleStartPlayback: the interval of an earlier call is
\* not cleared before the new one is created.
AppStartPlayback_NoClear ==
    /\ build = "App"
    /\ appMounted
    /\ IF Len(appRecordedData) = 0
       THEN UNCHANGED <<intervals, appIsPlaying, currentFrameIndex, playbackIntervalRef>>
       ELSE /\ appIsPlaying' = TRUE
            /\ currentFrameIndex' = 0
            /\ intervals' = setInterval(intervals, "App", Len(appRecordedData))
            /\ playbackIntervalRef' = NewInterval(intervals)
    /\ DidP("play")
    /\ UNCHANGED <<AppRest, appMounted, appRecordedData, appIsRecording, appClosures>>

\* Faulty variant of handleStartPlayback: the early return on an empty log is
\* missing.
AppStartPlayback_NoEmptyCheck ==
    /\ build = "App"
    /\ appMounted
    /\ LET c == clearPlaybackInterval(intervals, playbackIntervalRef) IN
        /\ appIsPlaying' = TRUE
        /\ currentFrameIndex' = 0
        /\ intervals' = setInterval(c.intervals, "App", Len(appRecordedData))
        /\ playbackIntervalRef' = NewInterval(c.intervals)
    /\ DidP("play")
    /\ UNCHANGED <<AppRest, appMounted, appRecordedData, appIsRecording, appClosures>>

AppStartPlayback ==
    /\ build = "App"
    /\ appMounted
    /\ IF Len(appRecordedData) = 0
       THEN UNCHANGED <<intervals, appIsPlaying, currentFrameIndex, playbackIntervalRef>>
       ELSE LET c == clearPlaybackInterval(intervals, playbackIntervalRef) IN
            /\ appIsPlaying' = TRUE
            /\ currentFrameIndex' = 0
            /\ intervals' = setInterval(c.intervals, "App", Len(appRecordedData))
            /\ playbackIntervalRef' = NewInterval(c.intervals)
    /\ DidP("play")
    /\ UNCHANGED <<AppRest, appMounted, appRecordedData, appIsRecording, appClosures>>

\* Faulty variant of handleStopPlayback: isPlaying is toggled, as the Play /
\* Pause button of VisualizeScreen does.
AppStopPlayback_Toggles ==
    /\ build = "App"
    /\ appMounted
    /\ LET c == clearPlaybackInterval(intervals, playbackIntervalRef) IN
        /\ appIsPlaying' = ~appIsPlaying
        /\ intervals' = c.intervals
        /\ playbackIntervalRef' = c.ref
    /\ DidP("pause")
    /\ UNCHANGED <<AppRest, appMounted, appRecordedData, appIsRecording, currentFrameIndex,
                   appClosures>>

AppStopPlayback ==
    /\ build = "App"
    /\ appMounted
    /\ LET c == clearPlaybackInterval(intervals, playbackIntervalRef) IN
        /\ appIsPlaying' = FALSE
        /\ intervals' = c.intervals
        /\ playbackIntervalRef' = c.ref
    /\ DidP("pause")
    /\ UNCHANGED <<AppRest, appMounted, appRecordedData, appIsRecording, currentFrameIndex,
                   appClosures>>

\* Faulty variant of the interval callback: at the final index the cursor wraps
\* to 0 and playback goes on.
AppTick_Loops ==
    \E t \in intervals :
        /\ build = "App"
        /\ t.owner = "App"
        /\ appMounted
        /\ currentFrameIndex' = IF currentFrameIndex >= t.length - 1 THEN 0
                                ELSE currentFrameIndex + 1
        /\ UNCHANGED <<intervals, playbackIntervalRef, appIsPlaying>>
        /\ DidP("tick")
        /\ UNCHANGED <<AppRest, appMounted, appRecordedData, appIsRecording, appClosures>>

\* An interval of handleStartPlayback fires (App.js:68-77); t.length is the
\* recordedData.length its closure holds.
AppTick ==
    \E t \in intervals :
        /\ build = "App"
        /\ t.owner = "App"
        /\ appMounted
        /\ IF currentFrameIndex >= t.length - 1
           THEN LET c == clearPlaybackInterval(intervals, playbackIntervalRef) IN
                /\ intervals' = c.intervals
                /\ playbackIntervalRef' = c.ref
                /\ appIsPlaying' = FALSE
                /\ currentFrameIndex' = 0
           ELSE /\ currentFrameIndex' = currentFrameIndex + 1
                /\ UNCHANGED <<intervals, playbackIntervalRef, appIsPlaying>>
        /\ DidP("tick")
        /\ UNCHANGED <<AppRest, appMounted, appRecordedData, appIsRecording, appClosures>>

\* App is torn down: the cleanup of its effect (App.js:141-143) runs.
AppUnmount ==
    /\ build = "App"
    /\ appMounted
    /\ appMounted' = FALSE
    /\ LET c == clearPlaybackInterval(intervals, playbackIntervalRef) IN
        /\ intervals' = c.intervals
        /\ playbackIntervalRef' = c.ref
    /\ DidP("appUnmount")
    /\ UNCHANGED <<AppRest, appRecordedData, appIsRecording, appIsPlaying, currentFrameIndex,
                   appClosures>>

PlaybackSpecInit ==
    /\ StoreInit
    /\ hydrating = <<>>
    /\ sensorEnv = "ok" /\ trackerImpl = "tsx" /\ subs = <<>>
    /\ TrackerInit
    /\ build \in {"App", "Screens"}
    /\ PlaybackInit
    /\ HistInit

PlaybackSpecNext ==
    \/ ScrStartRecording
    \/ ScrStopRecording
    \/ ScrAddDataPoint
    \/ VsMount
    \/ VsUnmount
    \/ VsTogglePlay
    \/ VsPressNext
    \/ VsPressPrevious
    \/ VsTick
    \/ VisAccelerometerReading
    \/ AppStartRecording
    \/ AppStopRecording
    \/ AppSensorsStarted
    \/ AppDataPoint
    \/ AppStartPlayback
    \/ AppStopPlayback
    \/ AppTick
    \/ AppUnmount

\* PlaybackSpec with the timers of VisualizeScreen running: an interval that is
\* scheduled keeps firing.
PlaybackLiveSpec == PlaybackSpecInit /\ [][PlaybackSpecNext]_vars /\ WF_vars(VsTick)

\* PlaybackSpec with the timer of App.js running: an interval that is scheduled
\* keeps firing.
AppLiveSpec == PlaybackSpecInit /\ [][PlaybackSpecNext]_vars /\ WF_vars(AppTick)

PlaybackSpec == PlaybackSpecInit /\ [][PlaybackSpecNext]_vars

----------------------------------------------------------------------------
(* Claims about the store, checked under StoreSpec. *)

\* C1: right after a stopRecording the log is exactly the samples passed to
\* addDataPoint during the recording interval opened by the most recent
\* startRecording, in call order, and stopRecording did not alter the log.
C1_LogIsSessionAfterStop ==
    lastOp = "stopRecording" =>
        /\ recordedData = session
        /\ recordedData = pre.recordedData

\* C1 witness: a recording of two different samples has just been stopped.
C1_Witness ==
    /\ lastOp = "stopRecording"
    /\ pre.isRecording
    /\ Len(recordedData) >= 2
    /\ recordedData[1] # recordedData[2]

\* C2: addDataPoint while isRecording is false changes none of recordedData,
\* currentDataIndex and isRecording.
C2_AddWhileIdleIsNoOp ==
    (lastOp = "addDataPoint" /\ ~pre.isRecording) => StoreFields = pre

\* C2 witness: a sample was offered while idle, with a finished recording held.
C2_Witness ==
    /\ lastOp = "addDataPoint"
    /\ ~pre.isRecording
    /\ Len(pre.recordedData) > 0

\* C3: startRecording from any state leaves the log empty, the cursor at 0 and
\* isRecording true.
C3_StartResets ==
    lastOp = "startRecording" =>
        /\ recordedData = <<>>
        /\ currentDataIndex = 0
        /\ isRecording = TRUE

\* C3 witness: startRecording called while already recording, with samples in
\* the log and the cursor off 0.
C3_Witness ==
    /\ lastOp = "startRecording"
    /\ pre.isRecording
    /\ Len(pre.recordedData) > 1
    /\ pre.currentDataIndex > 0

\* C4: the cursor is 0 on an empty log and within [0, length - 1] otherwise;
\* nextDataPoint and previousDataPoint on an empty log change nothing.
C4_CursorInBounds ==
    /\ recordedData = <<>> => currentDataIndex = 0
    /\ recordedData # <<>> => currentDataIndex \in 0..(Len(recordedData) - 1)
    /\ (lastOp \in {"nextDataPoint", "previousDataPoint"} /\ pre.recordedData = <<>>)
          => StoreFields = pre

\* C4 witness: nextDataPoint was called on an empty log.
C4_Witness ==
    /\ lastOp = "nextDataPoint"
    /\ pre.recordedData = <<>>

\* C11: nextDataPoint and previousDataPoint move the cursor by exactly +1 and
\* -1 when the result stays within [0, length - 1]; nextDataPoint at the final
\* index and previousDataPoint at index 0 leave the cursor where it is; neither
\* touches the log or isRecording.
C11_CursorMovesByOneOrSaturates ==
    /\ lastOp = "nextDataPoint" =>
          /\ currentDataIndex =
                IF pre.currentDataIndex + 1 \in 0..(Len(pre.recordedData) - 1)
                THEN pre.currentDataIndex + 1 ELSE pre.currentDataIndex
          /\ recordedData = pre.recordedData /\ isRecording = pre.isRecording
    /\ lastOp = "previousDataPoint" =>
          /\ currentDataIndex =
                IF pre.currentDataIndex - 1 \in 0..(Len(pre.recordedData) - 1)
                THEN pre.currentDataIndex - 1 ELSE pre.currentDataIndex
          /\ recordedData = pre.recordedData /\ isRecording = pre.isRecording

\* C11 witness: previousDataPoint was called at index 0 of a log of several
\* samples.
C11_Witness ==
    /\ lastOp = "previousDataPoint"
    /\ pre.currentDataIndex = 0
    /\ Len(pre.recordedData) >= 2

\* C15: clearRecordedData, called while idle or while recording, leaves the log
\* empty, the cursor at 0 and isRecording false, and an addDataPoint that
\* follows it is discarded.
C15_ClearResetsAndStopsRecording ==
    [][ /\ lastOp' = "clearRecordedData" =>
              /\ recordedData' = <<>>
              /\ currentDataIndex' = 0
              /\ isRecording' = FALSE
        /\ (lastOp = "clearRecordedData" /\ lastOp' = "addDataPoint") =>
              /\ recordedData' = <<>>
              /\ currentDataIndex' = 0
              /\ isRecording' = FALSE
      ]_vars

\* C15 witness: clearRecordedData was called during a recording that held
\* several samples.
C15_Witness ==
    /\ lastOp = "clearRecordedData"
    /\ pre.isRecording
    /\ Len(pre.recordedData) >= 2

\* C21: right after every accepted addDataPoint the cursor designates the
\* sample just appended: currentDataIndex is the last index of the new log,
\* whatever the cursor was before the call.
C21_CursorFollowsAppend ==
    (lastOp = "addDataPoint" /\ pre.isRecording) =>
        /\ Len(recordedData) = Len(pre.recordedData) + 1
        /\ SubSeq(recordedData, 1, Len(pre.recordedData)) = pre.recordedData
        /\ currentDataIndex = Len(recordedData) - 1

\* C21 witness: a sample was accepted while the cursor had been moved back from
\* the end of the log during the recording.
C21_Witness ==
    /\ lastOp = "addDataPoint"
    /\ pre.isRecording
    /\ Len(pre.recordedData) >= 2
    /\ pre.currentDataIndex < Len(pre.recordedData) - 1

----------------------------------------------------------------------------
(* Claims about the sensor components, checked under TrackerSpec. *)

\* The instance that registered subscription s has been torn down.
TornDown(s) ==
    IF s.owner = "MotionTracker"
    THEN s.gen < trkGen \/ ~trkMounted
    ELSE s.gen < visGen \/ ~visMounted

\* C5: with the tracker mounted while Idle and permission granted, once the user
\* has started recording every accelerometer reading delivered before the next
\* stop is appended to the log, and a reading delivered while Idle is discarded.
C5_ReadingsWhileRecordingAreAppended ==
    [][ ( /\ lastOp' = "accelerometerReading"
          /\ trackerImpl = "tsx"
          /\ trkMounted
          /\ trkHasPermissions
          /\ trkSubscription.accel # NoSubscription
          /\ ~subs[trkSubscription.accel].isRecording )
        => IF inSession
           THEN /\ Len(recordedData') = Len(recordedData) + 1
                /\ recordedData'[Len(recordedData')].type = "accelerometer"
                /\ recordedData'[Len(recordedData')].x = lastReading'.x
                /\ recordedData'[Len(recordedData')].y = lastReading'.y
                /\ recordedData'[Len(recordedData')].z = lastReading'.z
           ELSE ~isRecording => UNCHANGED <<isRecording, recordedData, currentDataIndex>>
      ]_vars

\* C7: after a sensor component is torn down, every subscription it registered
\* has had remove() called.
C7_NoListenerAfterTeardown ==
    \A i \in DOMAIN subs : TornDown(subs[i]) => subs[i].removed

\* C9: while sensor permission is denied or a sensor is unavailable, the
\* controller is never in the Recording state.
C9_NoRecordingWithoutSensors ==
    sensorEnv # "ok" => ~isRecording

----------------------------------------------------------------------------
(* Claims about playback (PlaybackSpec)                                      *)

\* Playback is active on VisualizeScreen.
VsPlaybackActive == build = "Screens" /\ vsMounted /\ vsIsPlaying /\ Len(recordedData) > 0

\* C6: while playback is active, every orientation message posted to the
\* renderer is derived from the recorded sample the playback cursor designates;
\* no message derived from a live accelerometer reading is posted.
C6_PlaybackPostsOnlyCursorSample ==
    VsPlaybackActive =>
        \A i \in DOMAIN posted :
            /\ posted[i].source = "motionData"
            /\ posted[i].msg = MotionDataMessage(currentMotionData(recordedData, currentDataIndex))

\* C8: after the component that owns playback is torn down (App, or
\* VisualizeScreen), no playback interval it created is still scheduled,
\* whatever play, pause and tick events came before.
C8_NoIntervalAfterTeardown ==
    /\ ~appMounted => \A t \in intervals : t.owner # "App"
    /\ ~vsMounted => \A t \in intervals : t.owner # "VisualizeScreen"

\* A teardown while playback was running.
C8_Witness ==
    \/ lastOp = "appUnmount" /\ appIsPlaying /\ Len(appRecordedData) > 1
    \/ lastOp = "vsUnmount" /\ vsIsPlaying /\ Len(recordedData) > 1

C12_PauseKeepsCursorAndStopsTicks ==
    [][ /\ lastOp' = "pause" =>
              /\ currentDataIndex' = currentDataIndex
              /\ recordedData' = recordedData
              /\ currentFrameIndex' = currentFrameIndex
              /\ appRecordedData' = appRecordedData
              /\ intervals' = {}
              /\ ~vsIsPlaying' /\ ~appIsPlaying'
        /\ lastOp' = "tick" =>
              IF build = "App" THEN appIsPlaying ELSE vsIsPlaying
      ]_vars

\* C12 witness: VisualizeScreen was paused with the cursor past the first
\* sample and before the last.
C12_Witness ==
    /\ build = "Screens" /\ vsMounted
    /\ lastOp = "pause"
    /\ Len(recordedData) >= 3
    /\ currentDataIndex = 1

\* C13: requesting play while the log is empty is a no-op: no ticker is
\* started, the playing flag and the cursor are unchanged, and the current
\* frame is the no-data value.  (VisualizeScreen renders its Play button only
\* over a non-empty log; there an empty log has no ticker and no frame.)
C13_PlayOnEmptyLogIsNoOp ==
    [][ /\ (lastOp' = "play" /\ build = "App" /\ Len(appRecordedData) = 0) =>
              /\ UNCHANGED <<intervals, playbackIntervalRef, appIsPlaying, currentFrameIndex,
                             appRecordedData>>
              /\ getCurrentMotionData(appRecordedData', appIsPlaying', currentFrameIndex') = Null
        /\ (lastOp' = "play" /\ build = "Screens") => Len(recordedData) > 0
        /\ (build = "Screens" /\ Len(recordedData') = 0) =>
              /\ intervals' = {}
              /\ currentMotionData(recordedData', currentDataIndex') = Null
      ]_vars

\* C13 witness: Play Motion was pressed in App.js over an empty log, with the
\* cursor left past 0 by an earlier playback.
C13_Witness ==
    /\ build = "App" /\ appMounted
    /\ lastOp = "play"
    /\ Len(appRecordedData) = 0
    /\ currentFrameIndex > 0

\* The values a subscription state variable can hold over the subscriptions ss.
SubscriptionValues(ss) == {NoSubscription} \cup DOMAIN ss

\* C14: cancellation is idempotent and safe when nothing was started:
\* handleStopPlayback / clearPlaybackInterval twice in a row leave the state the
\* first call left, with no ticker they change nothing, and stopSensors with
\* absent subscriptions removes nothing and, called again with the state it
\* left (null), removes nothing more.
C14_CancellationIsIdempotent ==
    /\ [][ (lastOp = "pause" /\ lastOp' = "pause" /\ build = "App") =>
               UNCHANGED <<intervals, appVars>> ]_vars
    /\ [][ (lastOp' = "pause" /\ build = "App" /\ playbackIntervalRef = NoInterval
               /\ ~appIsPlaying) => UNCHANGED <<intervals, appVars>> ]_vars
    /\ [] /\ \A ref \in {NoInterval} \cup {t.id : t \in intervals} :
                LET c == clearPlaybackInterval(intervals, ref) IN
                /\ clearPlaybackInterval(c.intervals, c.ref) = c
                /\ \A t \in c.intervals : t.id # ref
          /\ clearPlaybackInterval(intervals, NoInterval)
                = [intervals |-> intervals, ref |-> NoInterval]
          /\ stopSensors(subs, NoSubscription, NoSubscription) = subs
          /\ \A a, g \in SubscriptionValues(subs) :
                LET once == stopSensors(subs, a, g) IN
                /\ stopSensors(once, NoSubscription, NoSubscription) = once
                /\ \A i \in DOMAIN subs :
                      once[i].removed = (subs[i].removed \/ i \in {a, g})

\* C14 witness: Stop Playback ran in App.js although no ticker was ever
\* started (nothing has been recorded, so play never got past its guard).
C14_Witness ==
    /\ build = "App" /\ appMounted
    /\ lastOp = "pause"
    /\ appRecordedData = <<>>
    /\ appClosures = {FALSE}
    /\ intervals = {}

----------------------------------------------------------------------------
(* Claims about persistence and the recorded samples (TrackerSpec) *)

RotationFields == {"rotationX", "rotationY", "rotationZ"}

\* C20: every sample recorded from the accelerometer carries the derived
\* rotation (rotationX = y, rotationY = x, rotationZ = z of the raw reading it
\* holds), and every gyroscope sample in the log has none of the rotation
\* fields.
C20_RotationOnlyOnAccelerometerSamples ==
    \A i \in DOMAIN recordedData :
        LET s == recordedData[i] IN
        /\ s.type = "accelerometer" =>
              /\ RotationFields \subseteq DOMAIN s
              /\ s.rotationX = s.y /\ s.rotationY = s.x /\ s.rotationZ = s.z
        /\ s.type = "gyroscope" => RotationFields \cap DOMAIN s = {}

----------------------------------------------------------------------------
(* Claims about the App.js playback controller (PlaybackSpec) *)

\* C17: in App.js a tick that fires with the cursor at the final index of the
\* log as it is then sets the cursor to 0, cancels the ticker and sets
\* isPlaying false; a tick at an earlier index moves the cursor by exactly +1
\* and playback goes on. This covers a log replaced by a new recording after
\* play was pressed.
C17_TickFollowsCurrentLog ==
    [][ (lastOp' = "tick" /\ build = "App" /\ Len(appRecordedData) > 0
            /\ currentFrameIndex \in 0..(Len(appRecordedData) - 1)) =>
           IF currentFrameIndex = Len(appRecordedData) - 1
           THEN /\ currentFrameIndex' = 0
                /\ ~appIsPlaying'
                /\ intervals' = {}
           ELSE /\ currentFrameIndex' = currentFrameIndex + 1
                /\ appIsPlaying' = appIsPlaying
                /\ intervals' = intervals
      ]_vars

\* C18: on the store-backed Visualize screen, playback left running keeps
\* looping: once the frame at the final index is shown while playing, the frame
\* at index 0 is shown again later (unless playback was ended from outside: a
\* pause, an emptied log or the screen's teardown).
C18_PlaybackLoops ==
    (VsPlaybackActive /\ Len(recordedData) >= 2
        /\ FramePosition(recordedData, currentDataIndex) = Len(recordedData) - 1)
    ~> (~VsPlaybackActive \/ FramePosition(recordedData, currentDataIndex) = 0)

\* C19: in App.js, after any interleaving of its handlers and ticks the cursor
\* lies in [0, length - 1] whenever the log is non-empty, so
\* getCurrentMotionData never returns an undefined element, and starting a new
\* recording resets the cursor to 0.
C19_AppCursorInBounds ==
    (build = "App" /\ appMounted) =>
        /\ Len(appRecordedData) > 0 =>
              /\ currentFrameIndex \in 0..(Len(appRecordedData) - 1)
              /\ getCurrentMotionData(appRecordedData, appIsPlaying, currentFrameIndex)
                     # Undefined
        /\ lastOp = "startRecording" => currentFrameIndex = 0

\* C22: in App.js at most one playback interval is scheduled at any time, it is
\* the one whose handle playbackIntervalRef holds, and isPlaying is true
\* exactly when a handle is held, for every interleaving of handleStartPlayback
\* (repeated calls included), handleStopPlayback and ticks.
C22_OneIntervalIffPlaying ==
    (build = "App" /\ appMounted) =>
        /\ Cardinality(intervals) <= 1
        /\ appIsPlaying <=> playbackIntervalRef # NoInterval
        /\ \A t \in intervals : t.owner = "App" /\ t.id = playbackIntervalRef
        /\ playbackIntervalRef # NoInterval => \E t \in intervals : t.id = playbackIntervalRef

\* C22 witness: Play Motion was pressed over a log of three samples and
\* playback runs on the one interval that call created.
C22_Witness ==
    /\ build = "App" /\ appMounted
    /\ lastOp = "play"
    /\ appIsPlaying
    /\ Len(appRecordedData) >= 3
    /\ Cardinality(intervals) = 1
    /\ \A t \in intervals : t.length = Len(appRecordedData)

\* App.js is playing a log of n samples that is as long as when Play was
\* pressed, with the cursor at k.
AppPlayingAt(n, k) ==
    /\ build = "App" /\ appMounted
    /\ appIsPlaying
    /\ Len(appRecordedData) = n
    /\ \A t \in intervals : t.length = n
    /\ currentFrameIndex = k

\* The frame App.js hands to the renderer.
AppFrame == getCurrentMotionData(appRecordedData, appIsPlaying, currentFrameIndex)

\* C23: in App.js handleStartPlayback on a log of n >= 1 samples restarts from
\* index 0 whatever the retained cursor was; while the log keeps its length each
\* tick presents the next index, so the indices 0, 1, ..., n-1 are presented in
\* that order, once each, and the tick at n-1 stops playback by itself with
\* isPlaying false, the ticker cancelled and the cursor at 0; with the ticks
\* firing, every index is left (for the next one, or for the stop) unless the
\* log is changed, playback is stopped or restarted, or App is torn down.
C23_PlaybackIsOnePass ==
    /\ [][ /\ (lastOp' = "play" /\ build = "App" /\ Len(appRecordedData) >= 1) =>
                 /\ AppPlayingAt(Len(appRecordedData), 0)'
                 /\ Cardinality(intervals') = 1
                 /\ AppFrame' = appRecordedData[1]
           /\ \A n \in 1..MaxPlayLog : \A k \in 0..MaxPlayLog :
                 (lastOp' = "tick" /\ AppPlayingAt(n, k)) =>
                     /\ k <= n - 1
                     /\ AppFrame = appRecordedData[k + 1]
                     /\ IF k < n - 1
                        THEN /\ AppPlayingAt(n, k + 1)'
                             /\ intervals' = intervals
                             /\ AppFrame' = appRecordedData[k + 2]
                        ELSE /\ ~appIsPlaying'
                             /\ intervals' = {}
                             /\ playbackIntervalRef' = NoInterval
                             /\ currentFrameIndex' = 0
                             /\ appRecordedData' = appRecordedData
         ]_vars
    /\ \A n \in 1..MaxPlayLog : \A k \in 0..(n - 1) :
          AppPlayingAt(n, k) ~>
              \/ AppPlayingAt(n, k + 1)
              \/ ~appIsPlaying /\ intervals = {}
              \/ Len(appRecordedData) # n
              \/ k > 0 /\ currentFrameIndex = 0
              \/ ~appMounted

\* C23 witness: a tick has stopped the playback of a three-sample log by
\* itself, the recording long finished.
C23_Witness ==
    /\ build = "App" /\ appMounted
    /\ lastOp = "tick"
    /\ ~appIsPlaying /\ ~appIsRecording
    /\ Len(appRecordedData) = 3
    /\ currentFrameIndex = 0
    /\ intervals = {}
====
